---- MODULE Spec2Model ----
(***************************************************************************)
(* Model of the proxy chain of gost (chain.go): route selection            *)
(* (selectRoute), connection building (getConn) and the retrying entry     *)
(* points Dial and Conn.                                                   *)
(*                                                                         *)
(* A Node is a value [id, mux, DialOptions]: id stands for the node's      *)
(* address and failure marker, mux for Client.Transporter.Multiplex(),     *)
(* DialOptions for the chains passed by ChainDialOption.  A NodeGroup is   *)
(* the sequence of its nodes.  A *Chain is a record; isNil says that the   *)
(* pointer is nil.  A net.Conn is [id, path]: id names the physical        *)
(* connection (0: nil), path the addresses it has been tunnelled to.       *)
(*                                                                         *)
(* What the collaborators do is taken from their contracts: Client.Dial,   *)
(* Handshake and Connect return a connection or an error; a connection     *)
(* returned by Connect or Handshake runs over the physical connection it   *)
(* was given, and Close closes that physical connection; MarkDead and      *)
(* ResetDead set and clear the marker of one node; NodeGroup.Next returns  *)
(* a node of the group, or an error when its selector finds none.  Every   *)
(* node is in one group of the chain.  log[p] records the calls an attempt *)
(* makes on the collaborators, in order.                                   *)
(*                                                                         *)
(* Spec: one caller dials on the chain.  RouteSpec: one caller dials on    *)
(* the routes made of the chain.  ConcSpec: two callers dial on the chain  *)
(* at a time.  BuildSpec: the chain is put together with NewChain, AddNode *)
(* and AddNodeGroup, groups without nodes included, and read with Nodes()  *)
(* and LastNode().                                                         *)
(***************************************************************************)
EXTENDS Integers, Sequences, FiniteSets, TLC

\* ------------------------------------------------------------ bounds
NumHops == 3
MaxRetries == 2

Hops == 1..NumHops
DestAddrs == {101, 102}
Callers == {1, 2}

VARIABLES
    chain,      \* the configured chain the callers share
    supplied,   \* the groups NewChain, AddNode and AddNodeGroup were given, in order
    seen,       \* what the last call of Nodes() or LastNode() returned
    targets,    \* the chains the callers hold and call Dial and Conn on
    filter,     \* whether the groups' selector skips dead nodes
    dead,       \* dead[h]: node h's failure marker is set
    active,     \* the callers that run
    pc,         \* pc[p]: where caller p is
    op,         \* op[p]: "Dial" or "Conn"
    self,       \* self[p]: the receiver c of the running call
    addr,       \* addr[p]: Dial's addr
    i,          \* i[p]: the retry loop's counter
    route,      \* route[p]: the route of the running attempt
    k,          \* k[p]: index in nodes of getConn's loop (1-based)
    cn,         \* cn[p]: getConn's cn
    cc,         \* cc[p]: getConn's cc
    conn,       \* conn[p]: the call's conn result
    err,        \* err[p]: the call's err result
    opened,     \* opened[p]: physical connections the running attempt opened
    closed,     \* closed[p]: physical connections the running attempt closed
    log,        \* log[p]: the calls on collaborators made by the running attempt
    picked      \* picked[p]: the nodes group.Next() returned in the running attempt

vars == <<chain, supplied, seen, targets, filter, dead, active, pc, op, self, addr, i, route,
          k, cn, cc, conn, err, opened, closed, log, picked>>

\* ------------------------------------------------------------ values
NilConn == [id |-> 0, path |-> <<>>]
NoErr == [kind |-> "nil", hop |-> 0, attempt |-> 0]
Err(kind, hop, attempt) == [kind |-> kind, hop |-> hop, attempt |-> attempt]
ErrEmptyChain == [kind |-> "ErrEmptyChain", hop |-> 0, attempt |-> 0]
NilChain == [isNil |-> TRUE, isRoute |-> FALSE, Retries |-> 0, nodeGroups |-> <<>>]
EmptyNode == [id |-> 0, mux |-> FALSE, DialOptions |-> <<>>]
Ev(o, hop, via, ok) == [op |-> o, hop |-> hop, via |-> via, ok |-> ok]

\* nothing has been inspected
NotSeen == [op |-> "none", nodes |-> <<>>, panic |-> FALSE]

\* ------------------------------------------------------------ Chain
NewNodeGroup(node) == <<node>>

NewChain(nodes) ==
    [isNil |-> FALSE, isRoute |-> FALSE, Retries |-> 0,
     nodeGroups |-> [j \in 1..Len(nodes) |-> NewNodeGroup(nodes[j])]]

\* a slip: the new chain is not marked as a route
newRouteUnmarked(nodes) == NewChain(nodes)

newRoute(nodes) == [NewChain(nodes) EXCEPT !.isRoute = TRUE]

Nodes(c) ==
    LET ne == SelectSeq(c.nodeGroups, LAMBDA g : Len(g) > 0)
    IN  [j \in 1..Len(ne) |-> ne[j][1]]

\* a slip: the test for a chain without groups is left out
IsEmptyNilOnly(c) == c.isNil

IsEmpty(c) == c.isNil \/ Len(c.nodeGroups) = 0

\* a slip: the first node of the first group is taken
LastNodeOfFirst(c) ==
    IF IsEmpty(c) THEN EmptyNode ELSE c.nodeGroups[1][1]

LastNode(c) ==
    IF IsEmpty(c) THEN EmptyNode ELSE c.nodeGroups[Len(c.nodeGroups)][1]

\* a slip: the node is put in front of the chain's groups
AddNodeFront(c, node) ==
    IF c.isNil THEN c ELSE [c EXCEPT !.nodeGroups = <<NewNodeGroup(node)>> \o @]

AddNode(c, node) ==
    IF c.isNil THEN c ELSE [c EXCEPT !.nodeGroups = Append(@, NewNodeGroup(node))]

\* a slip: the group takes the place of the groups the chain has
AddNodeGroupOnly(c, group) ==
    IF c.isNil THEN c ELSE [c EXCEPT !.nodeGroups = <<group>>]

AddNodeGroup(c, group) ==
    IF c.isNil THEN c ELSE [c EXCEPT !.nodeGroups = Append(@, group)]

\* AddNode(nodes...) and AddNodeGroup(groups...): the loops over the arguments
RECURSIVE AddNodes(_, _)
AddNodes(c, nodes) ==
    IF nodes = <<>> THEN c ELSE AddNodes(AddNode(c, Head(nodes)), Tail(nodes))

RECURSIVE AddNodeGroups(_, _)
AddNodeGroups(c, groups) ==
    IF groups = <<>> THEN c ELSE AddNodeGroups(AddNodeGroup(c, Head(groups)), Tail(groups))

\* ChainDialOption(chain): the dial option that carries a chain
ChainDialOption(c) == c

\* ------------------------------------------------------------ collaborators
\* Node.MarkDead / Node.ResetDead on the node's failure marker
MarkDead(d, node) == [d EXCEPT ![node.id] = TRUE]
ResetDead(d, node) == [d EXCEPT ![node.id] = FALSE]

\* NodeGroup.Next(): one node of the group, or the selector's error.  With a
\* filtering selector the dead nodes are no candidates.
NextResults(group, d, flt, attempt) ==
    LET cand == {j \in 1..Len(group) : ~(flt /\ d[group[j].id])}
    IN  IF cand = {}
        THEN {[ok |-> FALSE, node |-> EmptyNode, err |-> Err("select", 0, attempt)]}
        ELSE {[ok |-> TRUE, node |-> group[j], err |-> NoErr] : j \in cand}

\* the results of calling Next() on every group, one sequence per outcome
RECURSIVE NextSeqs(_, _, _, _)
NextSeqs(groups, d, flt, attempt) ==
    IF groups = <<>> THEN {<<>>}
    ELSE {<<r>> \o rest : r \in NextResults(Head(groups), d, flt, attempt),
                          rest \in NextSeqs(Tail(groups), d, flt, attempt)}

\* a slip: the route so far is attached, and goes on instead of a new one
CutoffNoNewRoute(r, node, retries) ==
    [node  |-> [node EXCEPT !.DialOptions = Append(@, ChainDialOption(r))],
     route |-> r]

\* ------------------------------------------------------------ selectRoute
\* the multiplex cutoff: the node gets the route so far as a dial option and
\* a new route is started
Cutoff(r, node, retries) ==
    [node  |-> [node EXCEPT !.DialOptions = Append(@, ChainDialOption(r))],
     route |-> [newRoute(<<>>) EXCEPT !.Retries = retries]]

\* the loop over c.nodeGroups from group g on; picks[g] is what group g's
\* Next() returns when it is called
RECURSIVE selectLoop(_, _, _, _)
\* a slip: after a failed Next() the groups that follow are asked as well
selectLoopAsksOn(c, picks, g, r) ==
    IF g > Len(c.nodeGroups) THEN [route |-> r, err |-> NoErr, calls |-> g - 1]
    ELSE IF ~picks[g].ok
         THEN [route |-> NilChain, err |-> picks[g].err, calls |-> Len(c.nodeGroups)]
    ELSE LET node == picks[g].node
             cut  == IF node.mux THEN Cutoff(r, node, c.Retries)
                                 ELSE [node |-> node, route |-> r]
         IN  selectLoop(c, picks, g + 1, AddNode(cut.route, cut.node))

\* a slip: a multiplexing node is added like any other, without a cutoff
selectLoopNoCutoff(c, picks, g, r) ==
    IF g > Len(c.nodeGroups) THEN [route |-> r, err |-> NoErr, calls |-> g - 1]
    ELSE IF ~picks[g].ok THEN [route |-> NilChain, err |-> picks[g].err, calls |-> g]
    ELSE selectLoop(c, picks, g + 1, AddNode(r, picks[g].node))

selectLoop(c, picks, g, r) ==
    IF g > Len(c.nodeGroups) THEN [route |-> r, err |-> NoErr, calls |-> g - 1]
    ELSE IF ~picks[g].ok THEN [route |-> NilChain, err |-> picks[g].err, calls |-> g]
    ELSE LET node == picks[g].node
             cut  == IF node.mux THEN Cutoff(r, node, c.Retries)
                                 ELSE [node |-> node, route |-> r]
         IN  selectLoop(c, picks, g + 1, AddNode(cut.route, cut.node))

\* a slip: the nodes are taken as Nodes() takes them, the first of each group
selectRouteFirstNodes(c, picks) ==
    IF c.isRoute THEN [route |-> c, err |-> NoErr, calls |-> 0]
    ELSE selectLoop(c,
                    [g \in 1..Len(c.nodeGroups) |->
                        IF picks[g].ok THEN [picks[g] EXCEPT !.node = c.nodeGroups[g][1]]
                        ELSE picks[g]],
                    1, [newRoute(<<>>) EXCEPT !.Retries = c.Retries])

\* a slip: a route is resolved again
selectRouteAgain(c, picks) ==
    selectLoop(c, picks, 1, [newRoute(<<>>) EXCEPT !.Retries = c.Retries])

\* selectRoute: the route, the error and the number of groups asked
selectRoute(c, picks) ==
    IF c.isRoute THEN [route |-> c, err |-> NoErr, calls |-> 0]
    ELSE selectLoop(c, picks, 1, [newRoute(<<>>) EXCEPT !.Retries = c.Retries])

\* a slip: the loop runs while i < c.Retries
RetryLimitShort(c) == c.Retries

\* the retry loops' bound: i < c.Retries+1
RetryLimit(c) == c.Retries + 1

\* ------------------------------------------------------------ configurations
NodeOf(h, m) == [id |-> h, mux |-> m, DialOptions |-> <<>>]

\* the groups of one or two nodes that start at node `from`
GroupsAt(from) ==
    {<<NodeOf(from, m)>> : m \in BOOLEAN}
    \cup (IF from + 1 <= NumHops
          THEN {<<NodeOf(from, m1), NodeOf(from + 1, m2)>> : m1, m2 \in BOOLEAN}
          ELSE {})

\* the group lists over nodes from, from+1, ...: every node is in one group
RECURSIVE GroupSeqs(_)
GroupSeqs(from) ==
    {<<>>} \cup
    (IF from > NumHops THEN {}
     ELSE UNION {{<<g>> \o rest : rest \in GroupSeqs(from + Len(g))} : g \in GroupsAt(from)})

Chains ==
    {[isNil |-> FALSE, isRoute |-> FALSE, Retries |-> r, nodeGroups |-> gs] :
        r \in 0..MaxRetries, gs \in GroupSeqs(1)}

\* the sealed routes a route's nodes carry as dial options, nested ones included
RECURSIVE Sealed(_)
Sealed(r) ==
    UNION {{o} \cup Sealed(o) :
           o \in UNION {{n.DialOptions[j] : j \in 1..Len(n.DialOptions)} :
                        n \in {Nodes(r)[j] : j \in 1..Len(Nodes(r))}}}

\* the route selectRoute makes of chain c when every group's Next() returns its
\* first node, and the sealed routes in it.  (The routes through other nodes are
\* these routes of the chain that has those nodes first.)
RoutesOf(c) ==
    LET firsts == [g \in 1..Len(c.nodeGroups) |->
                     [ok |-> TRUE, node |-> c.nodeGroups[g][1], err |-> NoErr]]
        made == selectRoute(c, firsts).route
    IN  {made} \cup Sealed(made)

Upd(f, p, v) == [f EXCEPT ![p] = v]

\* ------------------------------------------------------------ initial state
\* no call of Dial or Conn runs
CallersIdle ==
    /\ pc = [p \in Callers |-> "idle"]
    /\ op = [p \in Callers |-> "none"]
    /\ self = [p \in Callers |-> NilChain]
    /\ addr = [p \in Callers |-> 0]
    /\ i = [p \in Callers |-> 0]
    /\ route = [p \in Callers |-> NilChain]
    /\ k = [p \in Callers |-> 0]
    /\ cn = [p \in Callers |-> NilConn]
    /\ cc = [p \in Callers |-> NilConn]
    /\ conn = [p \in Callers |-> NilConn]
    /\ err = [p \in Callers |-> NoErr]
    /\ opened = [p \in Callers |-> {}]
    /\ closed = [p \in Callers |-> {}]
    /\ log = [p \in Callers |-> <<>>]
    /\ picked = [p \in Callers |-> <<>>]

InitCommon ==
    /\ chain \in Chains
    /\ supplied = chain.nodeGroups
    /\ seen = NotSeen
    /\ filter \in BOOLEAN
    /\ dead = [h \in Hops |-> FALSE]
    /\ CallersIdle

\* one caller at a time, that holds the chain or a nil chain
Init == InitCommon /\ active = {1} /\ targets = {chain, NilChain}

\* one caller at a time, that holds the routes made of the chain, as the
\* transport of a multiplexing node holds the route of its dial option
RouteInit == InitCommon /\ active = {1} /\ targets = RoutesOf(chain)

\* ------------------------------------------------------------ actions
\* what a caller's variables are between calls
Clear(p) ==
    /\ op' = Upd(op, p, "none") /\ self' = Upd(self, p, NilChain)
    /\ addr' = Upd(addr, p, 0) /\ i' = Upd(i, p, 0)
    /\ route' = Upd(route, p, NilChain) /\ k' = Upd(k, p, 0)
    /\ cn' = Upd(cn, p, NilConn) /\ cc' = Upd(cc, p, NilConn)
    /\ conn' = Upd(conn, p, NilConn) /\ err' = Upd(err, p, NoErr)
    /\ opened' = Upd(opened, p, {}) /\ closed' = Upd(closed, p, {})
    /\ log' = Upd(log, p, <<>>) /\ picked' = Upd(picked, p, <<>>)

\* a caller calls c.Dial(a)
CallDial(p) ==
    /\ pc[p] = "idle"
    /\ \E c \in targets, a \in DestAddrs :
          /\ self' = Upd(self, p, c)
          /\ addr' = Upd(addr, p, a)
    /\ op' = Upd(op, p, "Dial")
    /\ pc' = Upd(pc, p, "entry")
    /\ UNCHANGED <<chain, supplied, seen, targets, filter, dead, active, i, route, k, cn, cc,
                   conn, err, opened, closed, log, picked>>

\* a caller calls c.Conn()
CallConn(p) ==
    /\ pc[p] = "idle"
    /\ \E c \in targets : self' = Upd(self, p, c)
    /\ op' = Upd(op, p, "Conn")
    /\ pc' = Upd(pc, p, "entry")
    /\ UNCHANGED <<chain, supplied, seen, targets, filter, dead, active, addr, i, route, k, cn, cc,
                   conn, err, opened, closed, log, picked>>

\* Dial on an empty chain: net.DialTimeout to addr, and its result is returned
DialDirect(p) ==
    /\ pc[p] = "entry" /\ op[p] = "Dial"
    /\ IsEmpty(self[p])
    /\ \E ok \in BOOLEAN :
          /\ log' = Upd(log, p, Append(log[p], Ev("netdial", addr[p], 0, ok)))
          /\ conn' = Upd(conn, p, IF ok THEN [id |-> 1, path |-> <<addr[p]>>] ELSE NilConn)
          /\ err' = Upd(err, p, IF ok THEN NoErr ELSE Err("netdial", addr[p], 0))
          /\ opened' = Upd(opened, p, IF ok THEN {1} ELSE {})
    /\ pc' = Upd(pc, p, "done")
    /\ UNCHANGED <<chain, supplied, seen, targets, filter, dead, active, op, self, addr, i, route,
                   k, cn, cc, closed, picked>>

\* Dial on a chain that is not empty enters its retry loop
DialEnter(p) ==
    /\ pc[p] = "entry" /\ op[p] = "Dial"
    /\ ~IsEmpty(self[p])
    /\ pc' = Upd(pc, p, "loop")
    /\ UNCHANGED <<chain, supplied, seen, targets, filter, dead, active, op, self, addr, i, route,
                   k, cn, cc, conn, err, opened, closed, log, picked>>

\* Conn enters its retry loop; it reads c.Retries, which panics on a nil chain
ConnEnter(p) ==
    /\ pc[p] = "entry" /\ op[p] = "Conn"
    /\ pc' = Upd(pc, p, IF self[p].isNil THEN "panic" ELSE "loop")
    /\ UNCHANGED <<chain, supplied, seen, targets, filter, dead, active, op, self, addr, i, route,
                   k, cn, cc, conn, err, opened, closed, log, picked>>

\* the retry loops' condition: another attempt, or the return of conn and err
Loop(p) ==
    /\ pc[p] = "loop"
    /\ IF i[p] < RetryLimit(self[p])
       THEN /\ pc' = Upd(pc, p, "select")
            /\ log' = Upd(log, p, <<>>)
            /\ picked' = Upd(picked, p, <<>>)
            /\ route' = Upd(route, p, NilChain)
            /\ k' = Upd(k, p, 0)
            /\ cn' = Upd(cn, p, NilConn)
            /\ cc' = Upd(cc, p, NilConn)
            /\ opened' = Upd(opened, p, {})
            /\ closed' = Upd(closed, p, {})
       ELSE /\ pc' = Upd(pc, p, "done")
            /\ UNCHANGED <<log, picked, route, k, cn, cc, opened, closed>>
    /\ UNCHANGED <<chain, supplied, seen, targets, filter, dead, active, op, self, addr, i, conn, err>>

\* an attempt ends with error e: dial returns (nil, e), getConn returns (nil, e),
\* and the loop goes on
Failed(p, e) ==
    /\ err' = Upd(err, p, e)
    /\ conn' = Upd(conn, p, NilConn)
    /\ i' = Upd(i, p, i[p] + 1)
    /\ pc' = Upd(pc, p, "loop")

\* the Next() calls of a selectRoute that asked `calls` groups
NextEvents(picks, calls) ==
    [g \in 1..calls |-> Ev("next", picks[g].node.id, g, picks[g].ok)]

PickedNodes(picks, calls) ==
    LET got == SelectSeq(SubSeq(picks, 1, calls), LAMBDA r : r.ok)
    IN  [g \in 1..Len(got) |-> got[g].node]

\* a slip: the selected nodes are the groups' own, and the dial option a
\* multiplexing node gets is stored in the chain
SelectRouteStores(p) ==
    /\ pc[p] = "select"
    /\ \E picks \in NextSeqs(self[p].nodeGroups, dead, filter, i[p] + 1) :
          LET r == selectRoute(self[p], picks)
              made == Nodes(r.route)
              stored(n) == IF \E j \in 1..Len(made) : made[j].id = n.id
                           THEN made[CHOOSE j \in 1..Len(made) : made[j].id = n.id]
                           ELSE n
          IN
          /\ log' = Upd(log, p, log[p] \o NextEvents(picks, r.calls))
          /\ picked' = Upd(picked, p, PickedNodes(picks, r.calls))
          /\ chain' = [chain EXCEPT !.nodeGroups =
                          [g \in 1..Len(@) |-> [j \in 1..Len(@[g]) |-> stored(@[g][j])]]]
          /\ IF r.err = NoErr
             THEN /\ route' = Upd(route, p, r.route)
                  /\ pc' = Upd(pc, p, "getConn")
                  /\ UNCHANGED <<err, conn, i>>
             ELSE /\ err' = Upd(err, p, r.err)
                  /\ conn' = IF op[p] = "Dial" THEN Upd(conn, p, NilConn) ELSE conn
                  /\ i' = Upd(i, p, i[p] + 1)
                  /\ pc' = Upd(pc, p, "loop")
                  /\ UNCHANGED route
    /\ UNCHANGED <<supplied, seen, targets, filter, dead, active, op, self, addr, k, cn, cc,
                   opened, closed>>

\* c.selectRoute() of an attempt, and what dial and Conn do with its error
SelectRoute(p) ==
    /\ pc[p] = "select"
    /\ \E picks \in NextSeqs(self[p].nodeGroups, dead, filter, i[p] + 1) :
          LET r == selectRoute(self[p], picks) IN
          /\ log' = Upd(log, p, log[p] \o NextEvents(picks, r.calls))
          /\ picked' = Upd(picked, p, PickedNodes(picks, r.calls))
          /\ IF r.err = NoErr
             THEN /\ route' = Upd(route, p, r.route)
                  /\ pc' = Upd(pc, p, "getConn")
                  /\ UNCHANGED <<err, conn, i>>
             ELSE /\ err' = Upd(err, p, r.err)
                  /\ conn' = IF op[p] = "Dial" THEN Upd(conn, p, NilConn) ELSE conn
                  /\ i' = Upd(i, p, i[p] + 1)
                  /\ pc' = Upd(pc, p, "loop")
                  /\ UNCHANGED route
    /\ UNCHANGED <<chain, supplied, seen, targets, filter, dead, active, op, self, addr, k, cn, cc,
                   opened, closed>>

\* getConn's entry: ErrEmptyChain on an empty route, else nodes := c.Nodes()
GetConnEnter(p) ==
    /\ pc[p] = "getConn"
    /\ IF IsEmpty(route[p])
       THEN /\ Failed(p, ErrEmptyChain)
            /\ UNCHANGED k
       ELSE /\ pc' = Upd(pc, p, "dial0")
            /\ k' = Upd(k, p, 1)
            /\ UNCHANGED <<err, conn, i>>
    /\ UNCHANGED <<chain, supplied, seen, targets, filter, dead, active, op, self, addr, route,
                   cn, cc, opened, closed, log, picked>>

\* node.Client.Dial of the first node
DialFirst(p) ==
    /\ pc[p] = "dial0"
    /\ LET node == Nodes(route[p])[1] IN
       \E ok \in BOOLEAN :
          IF ok
          THEN /\ cn' = Upd(cn, p, [id |-> i[p] + 1, path |-> <<node.id>>])
               /\ opened' = Upd(opened, p, opened[p] \cup {i[p] + 1})
               /\ log' = Upd(log, p, Append(log[p], Ev("dial", node.id, 0, TRUE)))
               /\ pc' = Upd(pc, p, "hs0")
               /\ UNCHANGED <<dead, err, conn, i>>
          ELSE /\ dead' = MarkDead(dead, node)
               /\ log' = Upd(log, p, log[p] \o <<Ev("dial", node.id, 0, FALSE),
                                                 Ev("markdead", node.id, 0, TRUE)>>)
               /\ Failed(p, Err("dial", node.id, i[p] + 1))
               /\ UNCHANGED <<cn, opened>>
    /\ UNCHANGED <<chain, supplied, seen, targets, filter, active, op, self, addr, route, k, cc,
                   closed, picked>>

\* the loop over nodes[1:] goes on at node k, or getConn is through
AfterHandshake(n, len) == IF n <= len THEN "connect" ELSE "built"

\* a slip: a failed handshake with the first node leaves its marker alone
HandshakeFirstNoMark(p) ==
    /\ pc[p] = "hs0"
    /\ LET node == Nodes(route[p])[1] IN
       \E ok \in BOOLEAN :
          IF ok
          THEN /\ dead' = ResetDead(dead, node)
               /\ log' = Upd(log, p, log[p] \o <<Ev("handshake", node.id, 0, TRUE),
                                                 Ev("resetdead", node.id, 0, TRUE)>>)
               /\ k' = Upd(k, p, 2)
               /\ pc' = Upd(pc, p, AfterHandshake(2, Len(Nodes(route[p]))))
               /\ UNCHANGED <<cn, err, conn, i>>
          ELSE /\ cn' = Upd(cn, p, NilConn)
               /\ log' = Upd(log, p, Append(log[p], Ev("handshake", node.id, 0, FALSE)))
               /\ Failed(p, Err("handshake", node.id, i[p] + 1))
               /\ UNCHANGED <<k, dead>>
    /\ UNCHANGED <<chain, supplied, seen, targets, filter, active, op, self, addr, route, cc,
                   opened, closed, picked>>

\* node.Client.Handshake with the first node
HandshakeFirst(p) ==
    /\ pc[p] = "hs0"
    /\ LET node == Nodes(route[p])[1] IN
       \E ok \in BOOLEAN :
          IF ok
          THEN /\ dead' = ResetDead(dead, node)
               /\ log' = Upd(log, p, log[p] \o <<Ev("handshake", node.id, 0, TRUE),
                                                 Ev("resetdead", node.id, 0, TRUE)>>)
               /\ k' = Upd(k, p, 2)
               /\ pc' = Upd(pc, p, AfterHandshake(2, Len(Nodes(route[p]))))
               /\ UNCHANGED <<cn, err, conn, i>>
          ELSE /\ cn' = Upd(cn, p, NilConn)
               /\ dead' = MarkDead(dead, node)
               /\ log' = Upd(log, p, log[p] \o <<Ev("handshake", node.id, 0, FALSE),
                                                 Ev("markdead", node.id, 0, TRUE)>>)
               /\ Failed(p, Err("handshake", node.id, i[p] + 1))
               /\ UNCHANGED k
    /\ UNCHANGED <<chain, supplied, seen, targets, filter, active, op, self, addr, route, cc,
                   opened, closed, picked>>

\* a slip: preNode is marked dead in place of node
FailedNodePre(nodes, n) == nodes[n - 1]

\* the node getConn's loop marks dead when its step k fails
FailedNode(nodes, n) == nodes[n]

\* preNode.Client.Connect(cn, node.Addr) in getConn's loop
ConnectNext(p) ==
    /\ pc[p] = "connect"
    /\ LET nodes == Nodes(route[p])
           node == nodes[k[p]]
           preNode == nodes[k[p] - 1]
       IN
       \E ok \in BOOLEAN :
          IF ok
          THEN /\ cc' = Upd(cc, p, [id |-> cn[p].id, path |-> Append(cn[p].path, node.id)])
               /\ log' = Upd(log, p, Append(log[p], Ev("connect", node.id, preNode.id, TRUE)))
               /\ pc' = Upd(pc, p, "hs")
               /\ UNCHANGED <<dead, closed, err, conn, i>>
          ELSE /\ closed' = Upd(closed, p, closed[p] \cup {cn[p].id})
               /\ dead' = MarkDead(dead, FailedNode(nodes, k[p]))
               /\ log' = Upd(log, p, log[p] \o
                              <<Ev("connect", node.id, preNode.id, FALSE),
                                Ev("close", cn[p].id, 0, TRUE),
                                Ev("markdead", FailedNode(nodes, k[p]).id, 0, TRUE)>>)
               /\ Failed(p, Err("connect", node.id, i[p] + 1))
               /\ UNCHANGED cc
    /\ UNCHANGED <<chain, supplied, seen, targets, filter, active, op, self, addr, route, k, cn,
                   opened, picked>>

\* node.Client.Handshake(cc) in getConn's loop
HandshakeNext(p) ==
    /\ pc[p] = "hs"
    /\ LET nodes == Nodes(route[p])
           node == nodes[k[p]]
       IN
       \E ok \in BOOLEAN :
          IF ok
          THEN /\ dead' = ResetDead(dead, node)
               /\ log' = Upd(log, p, log[p] \o <<Ev("handshake", node.id, 0, TRUE),
                                                 Ev("resetdead", node.id, 0, TRUE)>>)
               /\ cn' = Upd(cn, p, cc[p])
               /\ k' = Upd(k, p, k[p] + 1)
               /\ pc' = Upd(pc, p, AfterHandshake(k[p] + 1, Len(nodes)))
               /\ UNCHANGED <<cc, closed, err, conn, i>>
          ELSE /\ cc' = Upd(cc, p, NilConn)
               /\ closed' = Upd(closed, p, closed[p] \cup {cn[p].id})
               /\ dead' = MarkDead(dead, FailedNode(nodes, k[p]))
               /\ log' = Upd(log, p, log[p] \o
                              <<Ev("handshake", node.id, 0, FALSE),
                                Ev("close", cn[p].id, 0, TRUE),
                                Ev("markdead", FailedNode(nodes, k[p]).id, 0, TRUE)>>)
               /\ Failed(p, Err("handshake", node.id, i[p] + 1))
               /\ UNCHANGED <<cn, k>>
    /\ UNCHANGED <<chain, supplied, seen, targets, filter, active, op, self, addr, route,
                   opened, picked>>

\* a slip: Conn's err is shadowed in the loop, and the err it returns is stale
GetConnReturnShadowed(p) ==
    /\ pc[p] = "built"
    /\ IF op[p] = "Conn"
       THEN /\ conn' = Upd(conn, p, cn[p])
            /\ pc' = Upd(pc, p, "done")
            /\ UNCHANGED err
       ELSE /\ pc' = Upd(pc, p, "final")
            /\ UNCHANGED <<conn, err>>
    /\ UNCHANGED <<chain, supplied, seen, targets, filter, dead, active, op, self, addr, i, route,
                   k, cn, cc, opened, closed, log, picked>>

\* getConn returns (cn, nil): Conn breaks out of its loop with it, dial goes on
GetConnReturn(p) ==
    /\ pc[p] = "built"
    /\ IF op[p] = "Conn"
       THEN /\ conn' = Upd(conn, p, cn[p])
            /\ err' = Upd(err, p, NoErr)
            /\ pc' = Upd(pc, p, "done")
       ELSE /\ pc' = Upd(pc, p, "final")
            /\ UNCHANGED <<conn, err>>
    /\ UNCHANGED <<chain, supplied, seen, targets, filter, dead, active, op, self, addr, i, route,
                   k, cn, cc, opened, closed, log, picked>>

\* a slip: dial returns the error of the last connect without conn.Close()
FinalConnectNoClose(p) ==
    /\ pc[p] = "final"
    /\ LET last == LastNode(route[p]) IN
       \E ok \in BOOLEAN :
          IF ok
          THEN /\ conn' = Upd(conn, p, [id |-> cn[p].id, path |-> Append(cn[p].path, addr[p])])
               /\ err' = Upd(err, p, NoErr)
               /\ log' = Upd(log, p, Append(log[p], Ev("connect", addr[p], last.id, TRUE)))
               /\ pc' = Upd(pc, p, "done")
               /\ UNCHANGED <<closed, i>>
          ELSE /\ log' = Upd(log, p, Append(log[p], Ev("connect", addr[p], last.id, FALSE)))
               /\ Failed(p, Err("connect", addr[p], i[p] + 1))
               /\ UNCHANGED closed
    /\ UNCHANGED <<chain, supplied, seen, targets, filter, dead, active, op, self, addr, route,
                   k, cn, cc, opened, picked>>

\* a slip: dial marks the route's last node dead when the last connect fails
FinalConnectMarks(p) ==
    /\ pc[p] = "final"
    /\ LET last == LastNode(route[p]) IN
       \E ok \in BOOLEAN :
          IF ok
          THEN /\ conn' = Upd(conn, p, [id |-> cn[p].id, path |-> Append(cn[p].path, addr[p])])
               /\ err' = Upd(err, p, NoErr)
               /\ log' = Upd(log, p, Append(log[p], Ev("connect", addr[p], last.id, TRUE)))
               /\ pc' = Upd(pc, p, "done")
               /\ UNCHANGED <<closed, i, dead>>
          ELSE /\ closed' = Upd(closed, p, closed[p] \cup {cn[p].id})
               /\ dead' = MarkDead(dead, last)
               /\ log' = Upd(log, p, log[p] \o <<Ev("connect", addr[p], last.id, FALSE),
                                                 Ev("close", cn[p].id, 0, TRUE)>>)
               /\ Failed(p, Err("connect", addr[p], i[p] + 1))
    /\ UNCHANGED <<chain, supplied, seen, targets, filter, active, op, self, addr, route,
                   k, cn, cc, opened, picked>>

\* dial's route.LastNode().Client.Connect(conn, addr)
FinalConnect(p) ==
    /\ pc[p] = "final"
    /\ LET last == LastNode(route[p]) IN
       \E ok \in BOOLEAN :
          IF ok
          THEN /\ conn' = Upd(conn, p, [id |-> cn[p].id, path |-> Append(cn[p].path, addr[p])])
               /\ err' = Upd(err, p, NoErr)
               /\ log' = Upd(log, p, Append(log[p], Ev("connect", addr[p], last.id, TRUE)))
               /\ pc' = Upd(pc, p, "done")
               /\ UNCHANGED <<closed, i>>
          ELSE /\ closed' = Upd(closed, p, closed[p] \cup {cn[p].id})
               /\ log' = Upd(log, p, log[p] \o <<Ev("connect", addr[p], last.id, FALSE),
                                                 Ev("close", cn[p].id, 0, TRUE)>>)
               /\ Failed(p, Err("connect", addr[p], i[p] + 1))
    /\ UNCHANGED <<chain, supplied, seen, targets, filter, dead, active, op, self, addr, route,
                   k, cn, cc, opened, picked>>

\* the call returns conn and err to its caller
Return(p) ==
    /\ pc[p] = "done"
    /\ pc' = Upd(pc, p, "idle")
    /\ Clear(p)
    /\ UNCHANGED <<chain, supplied, seen, targets, filter, dead, active>>

Step(p) ==
    \/ CallDial(p) \/ CallConn(p)
    \/ DialDirect(p) \/ DialEnter(p) \/ ConnEnter(p)
    \/ Loop(p) \/ SelectRoute(p) \/ GetConnEnter(p)
    \/ DialFirst(p) \/ HandshakeFirst(p)
    \/ ConnectNext(p) \/ HandshakeNext(p)
    \/ GetConnReturn(p) \/ FinalConnect(p)
    \/ Return(p)

\* a panic ends the program
Next == (\A q \in Callers : pc[q] # "panic") /\ \E p \in active : Step(p)

Spec == Init /\ [][Next]_vars

RouteSpec == RouteInit /\ [][Next]_vars

\* two callers at a time, that hold the same chain; each call makes one attempt
\* on a chain of groups of one node
ConcInit ==
    /\ InitCommon
    /\ active = Callers
    /\ targets = {chain}
    /\ filter = TRUE
    /\ chain.Retries = 0
    /\ \A g \in 1..Len(chain.nodeGroups) : Len(chain.nodeGroups[g]) = 1

ConcSpec == ConcInit /\ [][Next]_vars

\* ------------------------------------------------------------ construction
\* The chain is put together and inspected while no call of Dial or Conn runs.
callerVars == <<pc, op, self, addr, i, route, k, cn, cc, conn, err, opened, closed,
                log, picked>>

\* the argument lists of the variadic calls: up to two nodes, up to two groups
\* of up to two nodes
SeqsUpTo2(S) == {<<>>} \cup {<<x>> : x \in S} \cup {<<x, y>> : x, y \in S}
NodeArgs == SeqsUpTo2({NodeOf(h, FALSE) : h \in Hops})
GroupArgs == SeqsUpTo2(NodeArgs)

\* the nodes of a list of groups, in order
RECURSIVE Flatten(_)
Flatten(groups) == IF groups = <<>> THEN <<>> ELSE Head(groups) \o Flatten(Tail(groups))

\* a node is handed to the chain once, and the chain takes NumHops groups
Fresh(groups) ==
    LET all == Flatten(supplied \o groups)
    IN  /\ Len(supplied) + Len(groups) <= NumHops
        /\ Cardinality({all[j] : j \in 1..Len(all)}) = Len(all)

\* the groups AddNode makes of its nodes
Singletons(nodes) == [j \in 1..Len(nodes) |-> <<nodes[j]>>]

\* var c *Chain: no chain yet; the groups' selectors skip dead nodes
BuildInit ==
    /\ chain = NilChain
    /\ supplied = <<>>
    /\ seen = NotSeen
    /\ filter = TRUE
    /\ dead = [h \in Hops |-> FALSE]
    /\ targets = {}
    /\ active = {}
    /\ CallersIdle

\* c = NewChain(nodes...)
NewChainCall ==
    /\ \E nodes \in NodeArgs :
          /\ Cardinality({nodes[j] : j \in 1..Len(nodes)}) = Len(nodes)
          /\ chain' = NewChain(nodes)
          /\ supplied' = Singletons(nodes)
    /\ seen' = NotSeen
    /\ UNCHANGED <<targets, filter, dead, active, callerVars>>

\* c.AddNode(nodes...)
AddNodeCall ==
    /\ \E nodes \in NodeArgs :
          /\ Fresh(Singletons(nodes))
          /\ chain' = AddNodes(chain, nodes)
          /\ supplied' = supplied \o Singletons(nodes)
    /\ seen' = NotSeen
    /\ UNCHANGED <<targets, filter, dead, active, callerVars>>

\* c.AddNodeGroup(groups...)
AddNodeGroupCall ==
    /\ \E groups \in GroupArgs :
          /\ Fresh(groups)
          /\ chain' = AddNodeGroups(chain, groups)
          /\ supplied' = supplied \o groups
    /\ seen' = NotSeen
    /\ UNCHANGED <<targets, filter, dead, active, callerVars>>

\* c.Nodes(); it ranges over c.nodeGroups, which panics on a nil chain
NodesCall ==
    /\ seen' = IF chain.isNil
               THEN [op |-> "Nodes", nodes |-> <<>>, panic |-> TRUE]
               ELSE [op |-> "Nodes", nodes |-> Nodes(chain), panic |-> FALSE]
    /\ UNCHANGED <<chain, supplied, targets, filter, dead, active, callerVars>>

\* c.LastNode(); group.nodes[0] panics when the last group has no node
LastNodeCall ==
    /\ seen' = IF ~IsEmpty(chain) /\ Len(chain.nodeGroups[Len(chain.nodeGroups)]) = 0
               THEN [op |-> "LastNode", nodes |-> <<>>, panic |-> TRUE]
               ELSE [op |-> "LastNode", nodes |-> <<LastNode(chain)>>, panic |-> FALSE]
    /\ UNCHANGED <<chain, supplied, targets, filter, dead, active, callerVars>>

\* a connection attempt made meanwhile sets or clears the marker of a node h
\* of the chain
NodeHealth(h) ==
    /\ \E g \in 1..Len(chain.nodeGroups) :
          \E j \in 1..Len(chain.nodeGroups[g]) : chain.nodeGroups[g][j].id = h
    /\ \E d \in BOOLEAN :
          dead' = IF d THEN MarkDead(dead, NodeOf(h, FALSE))
                       ELSE ResetDead(dead, NodeOf(h, FALSE))
    /\ UNCHANGED <<chain, supplied, seen, targets, filter, active, callerVars>>

BuildNext ==
    /\ ~seen.panic
    /\ \/ NewChainCall \/ AddNodeCall \/ AddNodeGroupCall
       \/ NodesCall \/ LastNodeCall
       \/ \E h \in Hops : NodeHealth(h)

BuildSpec == BuildInit /\ [][BuildNext]_vars

\* ------------------------------------------------------------ observations
Ids(nodes) == [j \in 1..Len(nodes) |-> nodes[j].id]

Range(q) == {q[j] : j \in 1..Len(q)}

\* the events of a log with one of the operations
Only(l, ops) == SelectSeq(l, LAMBDA e : e.op \in ops)

\* the nodes (or addresses) of a log's events with operation o, in order
HopsOf(l, o) == [j \in 1..Len(Only(l, {o})) |-> Only(l, {o})[j].hop]

\* the calls on groups and nodes
HopOps == {"next", "dial", "handshake", "connect", "markdead", "resetdead"}

\* the caller runs an attempt that has its route
Building == {"getConn", "dial0", "hs0", "connect", "hs", "built", "final"}

\* the caller's last attempt has just failed
JustFailed(p) == pc[p] = "loop" /\ i[p] > 0

\* the number of attempts a finished call has run
Attempts(p) == IF err[p] = NoErr THEN i[p] + 1 ELSE i[p]

\* ------------------------------------------------------------ C1
\* C1: Dial on an empty chain (nil, or without groups) makes exactly one direct
\* network dial to the destination and returns its result; it calls no group
\* and no node, whatever Retries is.
C1_EmptyDialIsDirect ==
    \A p \in Callers :
        (op[p] = "Dial" /\ (self[p].isNil \/ Len(self[p].nodeGroups) = 0)) =>
            /\ pc[p] \in {"entry", "done"}
            /\ pc[p] = "entry" => log[p] = <<>>
            /\ pc[p] = "done" =>
                  /\ Len(log[p]) = 1
                  /\ log[p][1].op = "netdial" /\ log[p][1].hop = addr[p]
                  /\ log[p][1].ok => (conn[p] = [id |-> 1, path |-> <<addr[p]>>] /\ err[p] = NoErr)
                  /\ ~log[p][1].ok => (conn[p] = NilConn /\ err[p].kind = "netdial")

C1_Witness ==
    \E p \in Callers :
        /\ op[p] = "Dial" /\ pc[p] = "done"
        /\ ~self[p].isNil /\ Len(self[p].nodeGroups) = 0 /\ self[p].Retries > 0
        /\ conn[p] # NilConn

\* ------------------------------------------------------------ C2
\* C2: on a chain that is not empty, Dial and Conn run at most Retries+1
\* attempts; the call ends at the first attempt that succeeds, with that
\* attempt's connection and no error; when all Retries+1 attempts fail it ends
\* with the error of the last one; with Retries = 0 one attempt is run.
C2_BoundedRetries ==
    \A p \in Callers :
        (op[p] \in {"Dial", "Conn"} /\ ~(self[p].isNil \/ Len(self[p].nodeGroups) = 0)) =>
            LET R == self[p].Retries IN
            /\ i[p] <= R + 1
            /\ pc[p] \in Building \cup {"select"} => i[p] < R + 1
            /\ pc[p] = "done" =>
                  /\ \/ /\ err[p] = NoErr
                        /\ conn[p] # NilConn /\ conn[p].id = i[p] + 1
                        /\ conn[p].id \in opened[p] \ closed[p]
                     \/ /\ err[p] # NoErr /\ err[p].attempt = R + 1
                        /\ conn[p] = NilConn
                        /\ i[p] = R + 1
                  /\ Attempts(p) \in 1..(R + 1)
                  /\ R = 0 => Attempts(p) = 1

C2_Witness ==
    \E p \in Callers :
        /\ pc[p] = "done" /\ op[p] = "Dial" /\ Len(self[p].nodeGroups) > 0
        /\ self[p].Retries >= 1 /\ i[p] = 1 /\ err[p] = NoErr

\* ------------------------------------------------------------ C3
\* the route of a list of selected nodes, told from its end: the nodes from the
\* last multiplexing one on; that node carries, as its last dial option, the
\* route of the nodes before it
RECURSIVE RouteOfPicked(_, _)
RouteOfPicked(nodes, retries) ==
    LET cuts == {j \in 1..Len(nodes) : nodes[j].mux}
        base == [newRoute(<<>>) EXCEPT !.Retries = retries]
    IN  IF cuts = {}
        THEN [base EXCEPT !.nodeGroups = [j \in 1..Len(nodes) |-> <<nodes[j]>>]]
        ELSE LET m == CHOOSE j \in cuts : \A j2 \in cuts : j2 <= j
                 head == [nodes[m] EXCEPT !.DialOptions =
                             Append(@, RouteOfPicked(SubSeq(nodes, 1, m - 1), retries))]
             IN  [base EXCEPT !.nodeGroups =
                     [j \in 1..(Len(nodes) - m + 1) |->
                         IF j = 1 THEN <<head>> ELSE <<nodes[m + j - 1]>>]]

\* the caller has resolved a chain that is no route
Resolved(p) == pc[p] \in Building /\ ~self[p].isRoute

\* the chain is [G0, G1]: G0 is one multiplexing node, G1 one node that is not
TwoGroupsFirstMux(c) ==
    /\ ~c.isNil /\ ~c.isRoute /\ Len(c.nodeGroups) = 2
    /\ Len(c.nodeGroups[1]) = 1 /\ c.nodeGroups[1][1].mux
    /\ Len(c.nodeGroups[2]) = 1 /\ ~c.nodeGroups[2][1].mux

\* C3 as stated: for groups [G0, G1], G0 = {hopA, multiplexing} and G1 = {hopB,
\* not multiplexing}, the resolved route is [hopB], and hopB's dial options
\* hold the sealed route [hopA].
C3_Original ==
    \A p \in Callers :
        (Resolved(p) /\ TwoGroupsFirstMux(self[p])) =>
            LET hopA == self[p].nodeGroups[1][1]
                hopB == self[p].nodeGroups[2][1]
                nodes == Nodes(route[p])
            IN  /\ Ids(nodes) = <<hopB.id>>
                /\ \E j \in 1..Len(nodes[1].DialOptions) :
                      Ids(Nodes(nodes[1].DialOptions[j])) = <<hopA.id>>

\* C3 amended: for groups [G0, G1] as above the resolved route is [hopA, hopB];
\* hopA's dial options hold the sealed empty route and hopB has no dial option
\* added.  On selecting a multiplexing node the route built before it, without
\* that node, is made the node's own last dial option, and a new route with the
\* chain's Retries is started whose first node is the multiplexing node.
C3_CutoffBeforeMux ==
    \A p \in Callers :
        (Resolved(p) /\ pc[p] = "getConn") =>
            /\ route[p] = RouteOfPicked(picked[p], self[p].Retries)
            /\ TwoGroupsFirstMux(self[p]) =>
                  LET hopA == self[p].nodeGroups[1][1]
                      hopB == self[p].nodeGroups[2][1]
                      nodes == Nodes(route[p])
                  IN  /\ Ids(nodes) = <<hopA.id, hopB.id>>
                      /\ nodes[1].DialOptions =
                            <<[newRoute(<<>>) EXCEPT !.Retries = self[p].Retries]>>
                      /\ nodes[2] = hopB

C3_Witness ==
    \E p \in Callers :
        /\ Resolved(p) /\ TwoGroupsFirstMux(self[p])
        /\ pc[p] = "getConn" /\ self[p].Retries > 0

\* ------------------------------------------------------------ C4
\* C4: when an attempt fails after it has opened a physical connection (the
\* first node's handshake, a later node's connect or handshake, or Dial's last
\* connect to the destination), that connection is closed: at the failure no
\* connection the attempt opened is still open.
C4_FailureClosesConn ==
    \A p \in Callers :
        (JustFailed(p) \/ (pc[p] = "done" /\ err[p] # NoErr)) =>
            opened[p] \ closed[p] = {}

\* ------------------------------------------------------------ C5
\* getConn's loop has just failed at node k (k >= 2: the second node or a later one)
FailedInLoop(p) ==
    /\ JustFailed(p)
    /\ err[p].kind \in {"connect", "handshake"} /\ err[p].hop \in Hops
    /\ k[p] >= 2

\* C5: when getConn fails at a node after the first (connect to it or the
\* handshake with it), that node alone is marked dead in the attempt, the nodes
\* before it have been reset, in order, and are not dead, no node after it
\* is called or has its marker touched, and the connection built so far is closed.
C5_LoopFailureMarksThatNode ==
    \A p \in Callers :
        FailedInLoop(p) =>
            LET nodes == Nodes(route[p])
                n == k[p]
            IN  /\ n <= Len(nodes) /\ err[p].hop = nodes[n].id
                /\ HopsOf(log[p], "markdead") = <<nodes[n].id>>
                /\ HopsOf(log[p], "resetdead") = SubSeq(Ids(nodes), 1, n - 1)
                /\ dead[nodes[n].id]
                /\ \A j \in 1..(n - 1) : ~dead[nodes[j].id]
                /\ \A j \in (n + 1)..Len(nodes) :
                      \A e \in Range(Only(log[p], HopOps \ {"next"})) :
                          e.hop # nodes[j].id /\ e.via # nodes[j].id
                /\ opened[p] = {cn[p].id} /\ closed[p] = {cn[p].id}
                /\ log[p][Len(log[p]) - 1] = Ev("close", cn[p].id, 0, TRUE)

C5_Witness ==
    \E p \in Callers :
        /\ FailedInLoop(p) /\ k[p] = 2 /\ Len(Nodes(route[p])) = 3
        /\ err[p].kind = "handshake"

\* ------------------------------------------------------------ C6
\* the calls of a log that contact a node: its dial, the connect to it, its handshake
Contacts(l) ==
    SelectSeq(l, LAMBDA e : e.op \in {"dial", "connect", "handshake"} /\ e.hop \in Hops)

\* a route's nodes, each preceded by the nodes of the routes in its dial options
RECURSIVE Flat(_)
RECURSIVE FlatNodes(_, _)
RECURSIVE FlatOptions(_, _)
FlatOptions(opts, j) ==
    IF j > Len(opts) THEN <<>> ELSE Flat(opts[j]) \o FlatOptions(opts, j + 1)
FlatNodes(nodes, j) ==
    IF j > Len(nodes) THEN <<>>
    ELSE FlatOptions(nodes[j].DialOptions, 1) \o <<nodes[j].id>> \o FlatNodes(nodes, j + 1)
Flat(r) == FlatNodes(Nodes(r), 1)

\* C6: in an attempt on a chain that is not empty, getConn contacts the nodes
\* one after another in the order of the resolved route: the first is dialed,
\* each next one is connected to through the node before it and then
\* handshaken, and a node is contacted only after the handshake with the node
\* before it has succeeded.  The route's nodes, preceded by the nodes of the
\* sealed routes of its dial options, are the nodes selected from the chain's
\* groups, one of each group, in the groups' order.
C6_ContactOrder ==
    \A p \in Callers :
        pc[p] \in Building \cup {"loop", "done"} /\ ~IsEmpty(route[p]) =>
            LET ids == Ids(Nodes(route[p]))
                cs == Contacts(log[p])
            IN  /\ Len(cs) <= 2 * Len(ids)
                /\ \A j \in 1..Len(cs) :
                      LET at == (j + 1) \div 2 IN
                      /\ cs[j].hop = ids[at]
                      /\ cs[j].op = (IF j % 2 = 0 THEN "handshake"
                                     ELSE IF j = 1 THEN "dial" ELSE "connect")
                      /\ j > 1 => cs[j - 1].ok
                      /\ cs[j].op = "connect" => cs[j].via = ids[at - 1]
                /\ (~self[p].isRoute /\ pc[p] = "getConn") =>
                      /\ Flat(route[p]) = Ids(picked[p])
                      /\ Len(picked[p]) = Len(self[p].nodeGroups)
                      /\ \A g \in 1..Len(picked[p]) :
                            picked[p][g] \in Range(self[p].nodeGroups[g])

C6_Witness ==
    \E p \in Callers :
        /\ pc[p] = "built" /\ ~self[p].isRoute
        /\ Len(Nodes(route[p])) = 2
        /\ Len(self[p].nodeGroups) = 3
        /\ Len(Contacts(log[p])) = 4

\* ------------------------------------------------------------ C7
\* C7: Dial and Conn resolve the route anew in every attempt on a chain that is
\* no route: the attempt's calls begin with Next() on every group, in order.  A
\* node that a failed attempt marked dead is dead when the next attempt
\* selects, so that a selector that skips dead nodes leaves it out of the
\* next attempt's route.
C7_ResolveEveryAttempt ==
    \A p \in Callers :
        /\ (pc[p] = "getConn" /\ ~self[p].isRoute) =>
              LET n == Len(self[p].nodeGroups) IN
              /\ Len(log[p]) = n
              /\ \A g \in 1..n :
                    /\ log[p][g].op = "next" /\ log[p][g].via = g /\ log[p][g].ok
                    /\ log[p][g].hop \in {self[p].nodeGroups[g][j].id :
                                             j \in 1..Len(self[p].nodeGroups[g])}
        /\ (pc[p] \in Building /\ ~self[p].isRoute) =>
              Len(Only(log[p], {"next"})) = Len(self[p].nodeGroups)
        /\ JustFailed(p) =>
              \A e \in Range(Only(log[p], {"markdead"})) : dead[e.hop]
        /\ (pc[p] = "getConn" /\ ~self[p].isRoute /\ filter) =>
              \A h \in Range(Ids(Nodes(route[p]))) : ~dead[h]

C7_Witness ==
    \E p \in Callers :
        /\ pc[p] = "getConn" /\ ~self[p].isRoute /\ filter /\ op[p] = "Conn"
        /\ i[p] = 1 /\ err[p].attempt = 1 /\ err[p].kind = "handshake"
        /\ dead[err[p].hop]
        /\ err[p].hop \in {self[p].nodeGroups[1][j].id : j \in 1..Len(self[p].nodeGroups[1])}
        /\ err[p].hop \notin Range(Ids(Nodes(route[p])))

\* ------------------------------------------------------------ C8
\* C8: selectRoute on a chain that is a route returns that route and no error,
\* calls Next() on no group, and changes no node's marker and no dial option:
\* resolving a resolved route gives the same route.
C8_RouteResolvesToItself ==
    \A p \in Callers :
        self[p].isRoute =>
            /\ pc[p] \in Building => route[p] = self[p]
            /\ pc[p] \in Building \cup {"loop", "done"} =>
                  /\ picked[p] = <<>>
                  /\ Only(log[p], {"next"}) = <<>>
            /\ pc[p] = "getConn" => log[p] = <<>>
            /\ err[p].kind # "select"
            /\ pc[p] = "entry" => self[p] \in RoutesOf(chain)

C8_Witness ==
    \E p \in Callers :
        /\ self[p].isRoute /\ pc[p] = "getConn"
        /\ Len(Nodes(self[p])) = 2
        /\ Nodes(self[p])[1].DialOptions # <<>>
        /\ \E h \in Hops : dead[h]

\* ------------------------------------------------------------ C9
\* C9: Conn on an empty chain (no groups, or nil) returns ErrEmptyChain and no
\* connection, whatever Retries is, and dials no node.
C9_ConnOnEmptyChain ==
    \A p \in Callers :
        (op[p] = "Conn" /\ (self[p].isNil \/ Len(self[p].nodeGroups) = 0)) =>
            /\ pc[p] # "panic"
            /\ Only(log[p], HopOps \cup {"netdial"}) = <<>>
            /\ pc[p] = "done" => (err[p] = ErrEmptyChain /\ conn[p] = NilConn)

\* ------------------------------------------------------------ C10
\* C10: on a chain that is not empty, getConn, Conn and Dial return either a
\* connection or an error: never both, never neither.
C10_ConnOrError ==
    \A p \in Callers :
        (op[p] \in {"Dial", "Conn"} /\ ~(self[p].isNil \/ Len(self[p].nodeGroups) = 0)) =>
            /\ pc[p] = "done" => ((conn[p] = NilConn) # (err[p] = NoErr))
            /\ pc[p] = "built" => cn[p] # NilConn
            /\ JustFailed(p) => (conn[p] = NilConn /\ err[p] # NoErr)

C10_Witness ==
    \E p \in Callers :
        /\ pc[p] = "done" /\ op[p] = "Conn" /\ Len(self[p].nodeGroups) = 2
        /\ i[p] = 1 /\ err[p] = NoErr /\ conn[p] # NilConn

\* ------------------------------------------------------------ C11
\* C11: after any sequence of NewChain, AddNode and AddNodeGroup calls the
\* chain's groups are the supplied nodes and groups in the order of the calls
\* and of their arguments, every node of AddNode and NewChain in a group of
\* its own: a call appends, and removes, replaces and reorders nothing.  On a
\* nil chain AddNode and AddNodeGroup do nothing.
C11_BuildAppends ==
    /\ chain.isNil => chain = NilChain
    /\ ~chain.isNil => chain.nodeGroups = supplied

\* calls have put NumHops groups in the chain, one of two nodes among them, and
\* the nodes do not come in the order of their numbers
C11_Witness ==
    /\ ~chain.isNil
    /\ Len(supplied) = NumHops
    /\ \E g \in 1..NumHops : Len(supplied[g]) = 2
    /\ \E g \in 1..NumHops : Len(supplied[g]) = 1
    /\ \E j \in 2..Len(Flatten(supplied)) :
          Flatten(supplied)[j].id < Flatten(supplied)[j - 1].id

\* ------------------------------------------------------------ C12
\* C12: Nodes() returns the first node of every group that has nodes, in the
\* order of the groups; LastNode() returns the first node of the last group,
\* or an empty node when the chain is empty (nil, or without groups); so it is
\* whatever the nodes' markers are and whatever node the group's selector
\* would return.
C12_Inspection ==
    /\ (seen.op = "Nodes" /\ ~chain.isNil) =>
          /\ ~seen.panic
          /\ seen.nodes = Flatten([g \in 1..Len(chain.nodeGroups) |->
                               IF chain.nodeGroups[g] = <<>> THEN <<>>
                               ELSE <<Head(chain.nodeGroups[g])>>])
    /\ seen.op = "LastNode" =>
          /\ ~seen.panic
          /\ seen.nodes = IF chain.isNil \/ chain.nodeGroups = <<>>
                          THEN <<EmptyNode>>
                          ELSE <<Head(chain.nodeGroups[Len(chain.nodeGroups)])>>

\* ------------------------------------------------------------ C13
\* C13: when Next() of the group at position g fails, selectRoute returns that
\* error and no route; the groups before g have been asked once each, in
\* order, and no group after g is asked; the attempt dials, handshakes, marks
\* and resets no node and opens no connection.  A later attempt starts again
\* at the first group.
C13_SelectFailure ==
    \A p \in Callers :
        (JustFailed(p) /\ err[p].kind = "select" /\ err[p].attempt = i[p]) =>
            LET n == Len(log[p]) IN
            /\ n \in 1..Len(self[p].nodeGroups)
            /\ \A g \in 1..n : /\ log[p][g].op = "next"
                                /\ log[p][g].via = g
                                /\ log[p][g].ok = (g < n)
            /\ Ids(picked[p]) = [g \in 1..(n - 1) |-> log[p][g].hop]
            /\ route[p] = NilChain
            /\ conn[p] = NilConn
            /\ opened[p] = {}

\* the third attempt of a call fails at the second group, after the first
\* group has given a node
C13_Witness ==
    \E p \in Callers :
        /\ JustFailed(p) /\ err[p].kind = "select" /\ err[p].attempt = i[p]
        /\ i[p] = 3
        /\ Len(log[p]) = 2
        /\ Len(self[p].nodeGroups) = 3

\* ------------------------------------------------------------ C14
\* the calls of an attempt on its route's nodes, after the route is resolved
Built(p) == Only(log[p], {"dial", "handshake", "connect", "markdead", "resetdead", "close"})

\* C14: getConn starts with the route's first node h0.  When dialing h0 fails,
\* h0 is marked dead and the error returned, with no handshake and no connect.
\* When the handshake with h0 fails, h0 is marked dead and the error returned,
\* and no later node is contacted, marked or reset.  h0's marker is reset only
\* right after its handshake has succeeded, before the second node is
\* contacted.
C14_FirstNode ==
    \A p \in Callers :
        (pc[p] \in Building \cup {"loop", "done"} /\ ~IsEmpty(route[p])) =>
            LET h0 == Nodes(route[p])[1].id
                b == Built(p)
                dialed == <<Ev("dial", h0, 0, TRUE)>>
                shaken == dialed \o <<Ev("handshake", h0, 0, TRUE),
                                      Ev("resetdead", h0, 0, TRUE)>>
            IN
            /\ Len(b) >= 1 => b[1].op = "dial" /\ b[1].hop = h0
            /\ (JustFailed(p) /\ err[p] = Err("dial", h0, i[p])) =>
                  /\ b = <<Ev("dial", h0, 0, FALSE), Ev("markdead", h0, 0, TRUE)>>
                  /\ dead[h0]
                  /\ opened[p] = {}
            /\ (JustFailed(p) /\ err[p] = Err("handshake", h0, i[p])) =>
                  /\ b = dialed \o <<Ev("handshake", h0, 0, FALSE),
                                      Ev("markdead", h0, 0, TRUE)>>
                  /\ dead[h0]
            /\ \A j \in 1..Len(b) :
                  /\ b[j] = Ev("resetdead", h0, 0, TRUE) => (j = 3 /\ SubSeq(b, 1, 3) = shaken)
                  /\ b[j].hop # h0 => (j > 3 /\ SubSeq(b, 1, 3) = shaken)

\* the handshake with the first node of a route of two nodes has just failed
C14_Witness ==
    \E p \in Callers :
        /\ JustFailed(p) /\ ~IsEmpty(route[p])
        /\ Len(Nodes(route[p])) = 2
        /\ err[p] = Err("handshake", Nodes(route[p])[1].id, i[p])

\* ------------------------------------------------------------ C15
\* C15: in Dial on a chain that is not empty, the connect to the destination
\* is made only when getConn has built the whole route: every node of the route
\* has been contacted and handshaken with success.  When that connect fails,
\* the connection the attempt has built is closed at once: it is closed when
\* the retry loop is reached again, before the next attempt resolves its
\* route, and when Dial returns after the last attempt.
C15_FinalConnect ==
    \A p \in Callers :
        (op[p] = "Dial" /\ ~IsEmpty(self[p])) =>
            /\ \A j \in 1..Len(log[p]) :
                  (log[p][j].op = "connect" /\ log[p][j].hop \in DestAddrs) =>
                      LET cs == Contacts(SubSeq(log[p], 1, j - 1)) IN
                      /\ log[p][j].hop = addr[p]
                      /\ Len(cs) = 2 * Len(Nodes(route[p]))
                      /\ \A c \in 1..Len(cs) : cs[c].ok
                      /\ HopsOf(SubSeq(log[p], 1, j - 1), "handshake") = Ids(Nodes(route[p]))
                      /\ cn[p].id \in opened[p] \ closed[p] \/ ~log[p][j].ok
            /\ (pc[p] \in {"loop", "done"} /\ i[p] > 0
                   /\ err[p] = Err("connect", addr[p], i[p])) =>
                  /\ cn[p].id \in opened[p]
                  /\ opened[p] \ closed[p] = {}
                  /\ SubSeq(log[p], Len(log[p]) - 1, Len(log[p])) =
                        <<Ev("connect", addr[p], LastNode(route[p]).id, FALSE),
                          Ev("close", cn[p].id, 0, TRUE)>>

\* the connect to the destination through a route of two nodes has failed in
\* the first attempt, and another attempt is to come
C15_Witness ==
    \E p \in Callers :
        /\ op[p] = "Dial" /\ pc[p] = "loop" /\ i[p] = 1 /\ self[p].Retries > 0
        /\ err[p] = Err("connect", addr[p], 1)
        /\ Len(Nodes(route[p])) = 2

\* ------------------------------------------------------------ C16
\* the calls a step adds to the log of caller p
NewEvents(p) ==
    IF Len(log'[p]) >= Len(log[p]) /\ SubSeq(log'[p], 1, Len(log[p])) = log[p]
    THEN SubSeq(log'[p], Len(log[p]) + 1, Len(log'[p]))
    ELSE <<>>

\* a step of getConn on node k of the route
BuilderSteps == {"dial0", "hs0", "connect", "hs"}

HealthStep ==
    \A p \in Callers :
        LET marks == Only(NewEvents(p), {"markdead", "resetdead"}) IN
        /\ pc[p] \notin BuilderSteps => marks = <<>>
        /\ pc[p] \in BuilderSteps =>
              LET node == Nodes(route[p])[k[p]] IN
              /\ Len(marks) <= 1
              /\ \A j \in 1..Len(marks) :
                    /\ marks[j].hop = node.id
                    /\ marks[j].op = "markdead" =>
                          (pc'[p] = "loop" /\ err'[p].hop = node.id /\ err'[p].attempt = i'[p])
                    /\ marks[j].op = "resetdead" =>
                          (pc[p] \in {"hs0", "hs"} /\ pc'[p] \in {"connect", "built"})
        /\ pc'[p] # pc[p] =>
              \A h \in Hops :
                  dead'[h] # dead[h] =>
                      \E j \in 1..Len(marks) :
                          /\ marks[j].hop = h
                          /\ dead'[h] = (marks[j].op = "markdead")

AfterFinalFailure ==
    \A p \in Callers :
        (JustFailed(p) /\ op[p] = "Dial" /\ err[p] = Err("connect", addr[p], i[p])) =>
            \A j \in 1..Len(Nodes(route[p])) : ~dead[Nodes(route[p])[j].id]

\* C16: a node's marker is set or cleared only by a step of getConn, and only
\* for the node of that step: set when the step on it has failed, cleared when
\* the handshake with it has succeeded.  selectRoute and the failure of dial's
\* last connect touch no marker, so after such a failure no node of the route
\* is marked dead.
C16_HealthFrame == [][HealthStep]_vars /\ []AfterFinalFailure

\* dial's last connect through a route of two nodes has failed, and a node of
\* the chain that is not in the route is marked dead
C16_Witness ==
    \E p \in Callers :
        /\ JustFailed(p) /\ op[p] = "Dial" /\ err[p] = Err("connect", addr[p], i[p])
        /\ Len(Nodes(route[p])) = 2
        /\ \E h \in Hops : dead[h]

\* ------------------------------------------------------------ C17
ChainAsBuilt ==
    /\ ~chain.isNil /\ ~chain.isRoute
    /\ chain.nodeGroups = supplied
    /\ \A g \in 1..Len(chain.nodeGroups) :
          \A j \in 1..Len(chain.nodeGroups[g]) : chain.nodeGroups[g][j].DialOptions = <<>>
    /\ \A p \in Callers :
          /\ pc[p] # "idle" => self[p] = chain
          /\ pc[p] = "getConn" => route[p] = RouteOfPicked(picked[p], chain.Retries)

C18_FreshRoutes ==
    \A p \in Callers :
        /\ pc[p] = "select" => route[p] = NilChain
        /\ (Resolved(p) /\ pc[p] = "getConn") =>
              /\ \A r \in {route[p]} \cup Sealed(route[p]) :
                    /\ ~r.isNil /\ r.isRoute
                    /\ r # self[p]
                    /\ r.Retries = self[p].Retries
                    /\ \A g \in 1..Len(r.nodeGroups) : Len(r.nodeGroups[g]) = 1
                    /\ Range(Ids(Nodes(r))) \subseteq Range(Ids(picked[p]))
              /\ Flat(route[p]) = Ids(picked[p])
              /\ Len(Nodes(route[p])) <= Len(picked[p])
              /\ Ids(Nodes(route[p])) =
                    SubSeq(Ids(picked[p]), Len(picked[p]) - Len(Nodes(route[p])) + 1,
                           Len(picked[p]))

\* the second attempt of a call has resolved a route of two nodes, with two
\* more routes in dial options
C18_Witness ==
    \E p \in Callers :
        /\ Resolved(p) /\ pc[p] = "getConn"
        /\ i[p] = 1 /\ self[p].Retries = MaxRetries
        /\ Len(Nodes(route[p])) = 2
        /\ Cardinality(Sealed(route[p])) = 2

\* ------------------------------------------------------------ C19
\* C19: when selectRoute succeeds on a chain that has groups, wherever the
\* multiplexing nodes are, in the last group too, the route it returns is not
\* empty and its last node is the node selected from the chain's last group.
\* So getConn does not fail with ErrEmptyChain on such a route, and dial's
\* last connect is made by the node selected from the last group.
C19_LastNodeOfRoute ==
    \A p \in Callers :
        (~self[p].isNil /\ ~self[p].isRoute /\ Len(self[p].nodeGroups) > 0) =>
            /\ err[p] # ErrEmptyChain
            /\ pc[p] \in Building =>
                  LET n == Len(self[p].nodeGroups) IN
                  /\ Len(picked[p]) = n
                  /\ picked[p][n] \in Range(self[p].nodeGroups[n])
                  /\ ~IsEmpty(route[p])
                  /\ LastNode(route[p]).id = picked[p][n].id
                  /\ Nodes(route[p])[Len(Nodes(route[p]))].id = picked[p][n].id
            /\ \A j \in 1..Len(log[p]) :
                  (log[p][j].op = "connect" /\ log[p][j].hop \in DestAddrs) =>
                      log[p][j].via = picked[p][Len(picked[p])].id

\* Dial has connected to the destination through a chain of two groups whose
\* last group gave a multiplexing node, the second of its group
C19_Witness ==
    \E p \in Callers :
        /\ op[p] = "Dial" /\ pc[p] = "done" /\ err[p] = NoErr
        /\ Len(picked[p]) = 2 /\ Len(self[p].nodeGroups) = 2
        /\ picked[p][2].mux
        /\ Len(self[p].nodeGroups[2]) = 2
        /\ picked[p][2] = self[p].nodeGroups[2][2]
        /\ Len(Nodes(route[p])) = 1

\* ------------------------------------------------------------ C20
\* C20: in every route selectRoute makes, the one it returns and every one in
\* a dial option, a multiplexing node is the first node only, and only a
\* first node has dial options.  So getConn reaches a multiplexing node by
\* dialing it, never by a connect through the node before it.
C20_MuxFirstOnly ==
    \A p \in Callers :
        ~self[p].isRoute =>
            /\ pc[p] = "getConn" =>
                  \A r \in {route[p]} \cup Sealed(route[p]) :
                      \A j \in 2..Len(Nodes(r)) :
                          ~Nodes(r)[j].mux /\ Nodes(r)[j].DialOptions = <<>>
            /\ pc[p] \in Building \cup {"loop", "done"} =>
                  \A j \in 1..Len(log[p]) :
                      /\ (log[p][j].op = "connect" /\ log[p][j].hop \in Hops) =>
                            \E n \in Range(Nodes(route[p])) :
                                n.id = log[p][j].hop /\ ~n.mux /\ n.DialOptions = <<>>
                      /\ log[p][j].op = "dial" => log[p][j].hop = Nodes(route[p])[1].id

\* getConn has built a route of two nodes whose first node is multiplexing and
\* carries a route with a multiplexing node
C20_Witness ==
    \E p \in Callers :
        /\ ~self[p].isRoute /\ pc[p] = "built"
        /\ Len(Nodes(route[p])) = 2
        /\ Nodes(route[p])[1].mux
        /\ \E r \in Sealed(route[p]) : Len(Nodes(r)) = 1 /\ Nodes(r)[1].mux

====
